---- MODULE Spec2Model ----
(***************************************************************************)
(* Model of the predict-risk edge function (predictRisk and the serve      *)
(* handler) of neon-risk-insight, and of the Predict form that calls it.   *)
(*                                                                         *)
(* Numbers.  Scores, probabilities and cutoffs are fixed-point integers in *)
(* units of 0.00001 (so 0.08 is 8000 and 0.4 is 40000).  Math.random() is  *)
(* a value r/1000 with r in 0..999.  Ratios are kept exact as fractions,   *)
(* with the IEEE special values Infinity, -Infinity and NaN that division  *)
(* by zero and ToNumber of a non-numeric value produce.                    *)
(* Where a claim depends on rounding, the score is also computed in IEEE   *)
(* double precision (RawScoreDouble).                                      *)
(***************************************************************************)
EXTENDS Integers, Sequences, FiniteSets, TLC

VARIABLES cutoffs,          \* meta.cutoffs, read once when the module is loaded
          pc,               \* position of the serve handler
          req,              \* the request being served
          body,             \* the value req.json() resolved to
          error,            \* the Error thrown inside the try block
          arg,              \* predictRisk's parameter data
          riskScore,        \* predictRisk's local riskScore
          baseProbability,  \* predictRisk's local baseProbability
          rnd,              \* the value Math.random() returned, in thousandths
          result,           \* the value predictRisk returned
          resp,             \* the Response the handler returned
          calls,            \* predictRisk invocations made for this request
          last,             \* an earlier predictRisk call or answered request
          waiting,          \* requests whose handler is suspended at await
          formData,         \* the Predict component's formData state
          loading,          \* the Predict component's loading state
          formResult,       \* the Predict component's result state
          toasted,          \* the latest notice passed to toast()
          fpc,              \* position of handlePredict
          outbox,           \* body of the invoke() call not yet settled
          reply,            \* the value invoke() resolved to
          caught            \* the value thrown inside handlePredict's try

serverVars == <<cutoffs, pc, req, body, error, arg, riskScore, baseProbability,
                rnd, result, resp, calls, last, waiting>>

formVars == <<formData, loading, formResult, toasted, fpc, outbox, reply, caught>>

vars == <<serverVars, formVars>>

----------------------------------------------------------------------------
(* Bounds of the model *)

MaxIncome == 1
MaxCredit == 4
RandSteps == 2
MaxCutoff == 3
MaxWaiting == 1

----------------------------------------------------------------------------
(* JSON values and JavaScript numbers *)

None == [t |-> "none"]
Null == [t |-> "null"]
Undefined == [t |-> "undefined"]
Num(n) == [t |-> "num", n |-> n]
Str(s) == [t |-> "str", s |-> s]
Bool(b) == [t |-> "bool", b |-> b]
NaN == [k |-> "nan"]
PInf == [k |-> "pinf"]
NInf == [k |-> "ninf"]
Fin(n) == [k |-> "fin", n |-> n]
Rat(n, d) == [k |-> "rat", n |-> n, d |-> d]

\* Numeric strings the model uses, with the number each one converts to.
NumericStrings == [s \in {"", "30"} |-> IF s = "" THEN 0 ELSE 30]

\* ECMAScript ToNumber, applied by /, * and the relational operators.
ToNumber(v) ==
    CASE v.t = "num" -> Fin(v.n)
      [] v.t = "null" -> Fin(0)
      [] v.t = "bool" -> Fin(IF v.b THEN 1 ELSE 0)
      [] v.t = "str" -> IF v.s \in DOMAIN NumericStrings
                           THEN Fin(NumericStrings[v.s])
                           ELSE NaN
      [] OTHER -> NaN

\* x * c for a literal c
MulC(x, c) == IF x.k = "fin" THEN Fin(x.n * c) ELSE NaN

\* Division in which every division by zero gives NaN.
DivZeroIsNaN(x, y) ==
    IF x.k # "fin" \/ y.k # "fin" THEN NaN
    ELSE IF y.n = 0 THEN NaN
         ELSE IF y.n > 0 THEN Rat(x.n, y.n) ELSE Rat(-x.n, -y.n)

\* x / y on doubles: a finite quotient is kept as an exact fraction with a
\* positive denominator.
Div(x, y) ==
    IF x.k # "fin" \/ y.k # "fin" THEN NaN
    ELSE IF y.n = 0
         THEN (IF x.n > 0 THEN PInf ELSE IF x.n < 0 THEN NInf ELSE NaN)
         ELSE IF y.n > 0 THEN Rat(x.n, y.n) ELSE Rat(-x.n, -y.n)

\* The ratio comparison written with >= in place of >.
RatioGe(r, cn, cd) ==
    CASE r.k = "pinf" -> TRUE
      [] r.k = "rat" -> r.n * cd >= cn * r.d
      [] OTHER -> FALSE

\* ratio > cn/cd  (cd > 0); every comparison with NaN is false.
RatioGt(r, cn, cd) ==
    CASE r.k = "pinf" -> TRUE
      [] r.k = "rat" -> r.n * cd > cn * r.d
      [] OTHER -> FALSE

\* x < c and x > c for an integer literal c
NumLt(x, c) == x.k = "fin" /\ x.n < c
NumGt(x, c) == x.k = "fin" /\ x.n > c

\* data[field], undefined when the key is absent
Get(data, field) == IF field \in DOMAIN data THEN data[field] ELSE Undefined

\* a literal written in hundredths, in the model's unit
Hundredths(h) == h * 1000

Max(a, b) == IF a >= b THEN a ELSE b
Min(a, b) == IF a <= b THEN a ELSE b

----------------------------------------------------------------------------
(* predictRisk *)

Fields == <<"annual_income", "credit_amount", "annuity", "age",
            "employment_years", "gender", "contract_type", "education">>

creditToIncome(data) ==
    Div(ToNumber(Get(data, "credit_amount")), ToNumber(Get(data, "annual_income")))
annuityToIncome(data) ==
    Div(ToNumber(Get(data, "annuity")), ToNumber(Get(data, "annual_income")))
debtToIncome(data) ==
    Div(MulC(ToNumber(Get(data, "annuity")), 12), ToNumber(Get(data, "annual_income")))

\* The six if / else-if statements of the scoring block, numbered in the
\* order the code runs them.
RuleGroups == 1..6

\* ApplyGroup with the credit-to-income chain written as three separate ifs.
ApplyGroupNoElse(g, s, data) ==
    CASE g = 1 ->
           s + (IF RatioGt(creditToIncome(data), 3, 1) THEN Hundredths(8) ELSE 0)
             + (IF RatioGt(creditToIncome(data), 2, 1) THEN Hundredths(5) ELSE 0)
             + (IF RatioGt(creditToIncome(data), 1, 1) THEN Hundredths(3) ELSE 0)
      [] g = 2 ->
           IF RatioGt(debtToIncome(data), 1, 2) THEN s + Hundredths(6)
           ELSE IF RatioGt(debtToIncome(data), 3, 10) THEN s + Hundredths(3)
           ELSE s
      [] g = 3 ->
           IF NumLt(ToNumber(Get(data, "age")), 25) THEN s + Hundredths(4)
           ELSE IF NumGt(ToNumber(Get(data, "age")), 60) THEN s + Hundredths(2)
           ELSE s
      [] g = 4 ->
           IF NumLt(ToNumber(Get(data, "employment_years")), 1) THEN s + Hundredths(5)
           ELSE IF NumLt(ToNumber(Get(data, "employment_years")), 3) THEN s + Hundredths(3)
           ELSE IF NumGt(ToNumber(Get(data, "employment_years")), 10) THEN s - Hundredths(2)
           ELSE s
      [] g = 5 ->
           IF Get(data, "contract_type") = Str("Revolving loans") THEN s + Hundredths(2)
           ELSE s
      [] g = 6 ->
           IF Get(data, "education") = Str("Academic degree")
              \/ Get(data, "education") = Str("Higher education")
           THEN s - Hundredths(2)
           ELSE IF Get(data, "education") = Str("Lower secondary") THEN s + Hundredths(2)
           ELSE s

\* ApplyGroup with 0.8 written for 0.08 in the first rule.
ApplyGroupCreditTenfold(g, s, data) ==
    CASE g = 1 ->
           IF RatioGt(creditToIncome(data), 3, 1) THEN s + Hundredths(80)
           ELSE IF RatioGt(creditToIncome(data), 2, 1) THEN s + Hundredths(5)
           ELSE IF RatioGt(creditToIncome(data), 1, 1) THEN s + Hundredths(3)
           ELSE s
      [] g = 2 ->
           IF RatioGt(debtToIncome(data), 1, 2) THEN s + Hundredths(6)
           ELSE IF RatioGt(debtToIncome(data), 3, 10) THEN s + Hundredths(3)
           ELSE s
      [] g = 3 ->
           IF NumLt(ToNumber(Get(data, "age")), 25) THEN s + Hundredths(4)
           ELSE IF NumGt(ToNumber(Get(data, "age")), 60) THEN s + Hundredths(2)
           ELSE s
      [] g = 4 ->
           IF NumLt(ToNumber(Get(data, "employment_years")), 1) THEN s + Hundredths(5)
           ELSE IF NumLt(ToNumber(Get(data, "employment_years")), 3) THEN s + Hundredths(3)
           ELSE IF NumGt(ToNumber(Get(data, "employment_years")), 10) THEN s - Hundredths(2)
           ELSE s
      [] g = 5 ->
           IF Get(data, "contract_type") = Str("Revolving loans") THEN s + Hundredths(2)
           ELSE s
      [] g = 6 ->
           IF Get(data, "education") = Str("Academic degree")
              \/ Get(data, "education") = Str("Higher education")
           THEN s - Hundredths(2)
           ELSE IF Get(data, "education") = Str("Lower secondary") THEN s + Hundredths(2)
           ELSE s

\* The effect of statement group g on the accumulator s.
ApplyGroup(g, s, data) ==
    CASE g = 1 ->
           IF RatioGt(creditToIncome(data), 3, 1) THEN s + Hundredths(8)
           ELSE IF RatioGt(creditToIncome(data), 2, 1) THEN s + Hundredths(5)
           ELSE IF RatioGt(creditToIncome(data), 1, 1) THEN s + Hundredths(3)
           ELSE s
      [] g = 2 ->
           IF RatioGt(debtToIncome(data), 1, 2) THEN s + Hundredths(6)
           ELSE IF RatioGt(debtToIncome(data), 3, 10) THEN s + Hundredths(3)
           ELSE s
      [] g = 3 ->
           IF NumLt(ToNumber(Get(data, "age")), 25) THEN s + Hundredths(4)
           ELSE IF NumGt(ToNumber(Get(data, "age")), 60) THEN s + Hundredths(2)
           ELSE s
      [] g = 4 ->
           IF NumLt(ToNumber(Get(data, "employment_years")), 1) THEN s + Hundredths(5)
           ELSE IF NumLt(ToNumber(Get(data, "employment_years")), 3) THEN s + Hundredths(3)
           ELSE IF NumGt(ToNumber(Get(data, "employment_years")), 10) THEN s - Hundredths(2)
           ELSE s
      [] g = 5 ->
           IF Get(data, "contract_type") = Str("Revolving loans") THEN s + Hundredths(2)
           ELSE s
      [] g = 6 ->
           IF Get(data, "education") = Str("Academic degree")
              \/ Get(data, "education") = Str("Higher education")
           THEN s - Hundredths(2)
           ELSE IF Get(data, "education") = Str("Lower secondary") THEN s + Hundredths(2)
           ELSE s

\* The statement groups joined into one else-if chain: the first group that
\* changes the accumulator ends the scoring.
RECURSIVE ScoreInOrderFirstHit(_, _, _)
ScoreInOrderFirstHit(order, s, data) ==
    IF order = <<>> THEN s
    ELSE IF ApplyGroup(Head(order), s, data) # s
         THEN ApplyGroup(Head(order), s, data)
         ELSE ScoreInOrderFirstHit(Tail(order), s, data)

\* The accumulator after the statement groups listed in order have run.
RECURSIVE ScoreInOrder(_, _, _)
ScoreInOrder(order, s, data) ==
    IF order = <<>> THEN s
    ELSE ScoreInOrder(Tail(order), ApplyGroup(Head(order), s, data), data)

CodeOrder == <<1, 2, 3, 4, 5, 6>>

\* riskScore kept across calls instead of being declared inside predictRisk.
InitialRiskScoreCarried == IF arg = None THEN 0 ELSE riskScore

\* let riskScore = 0
InitialRiskScore == 0

\* The scoring block with a rule on gender added.
RawScoreWithGender(data) ==
    ScoreInOrder(CodeOrder, InitialRiskScore, data)
        + (IF Get(data, "gender") = Str("M") THEN Hundredths(1) ELSE 0)

\* riskScore when the scoring block ends
RawScore(data) == ScoreInOrder(CodeOrder, InitialRiskScore, data)

\* The clamp without its lower bound.
BaseProbabilityNoLower(s) == Min(Hundredths(40), s)

\* Math.max(0, Math.min(0.4, riskScore))
BaseProbability(s) == Max(0, Min(Hundredths(40), s))

\* Math.random() * 0.02 - 0.01 for Math.random() = r / 1000
Perturbation(r) == 2 * r - Hundredths(1)

\* The clamp applied once more after the perturbation is added.
ProbabilityClampedAfter(base, r) ==
    Max(0, Min(Hundredths(40), base + Perturbation(r)))

\* const probability = baseProbability + (Math.random() * 0.02 - 0.01)
Probability(base, r) == base + Perturbation(r)

\* The bucket chain with < in place of <=.
BucketStrict(probability, c) ==
    IF probability < c.A THEN "A"
    ELSE IF probability < c.B THEN "B"
    ELSE IF probability < c.C THEN "C"
    ELSE "D"

\* The bucket chain written as three independent ifs (no else).
BucketNoElse(probability, c) ==
    IF probability <= c.C THEN "C"
    ELSE IF probability <= c.B THEN "B"
    ELSE IF probability <= c.A THEN "A"
    ELSE "D"

\* let bucket = "D"; if (probability <= cutoffs.A) ... else if ...
Bucket(probability, c) ==
    IF probability <= c.A THEN "A"
    ELSE IF probability <= c.B THEN "B"
    ELSE IF probability <= c.C THEN "C"
    ELSE "D"

----------------------------------------------------------------------------
(* Inputs *)

FieldSet == {Fields[i] : i \in 1..Len(Fields)}

\* Values of Math.random(), in thousandths: 0 <= r < 1000.
RandomVals == {(999 * i) \div RandSteps : i \in 0..RandSteps}

\* Cutoff triples of the configuration file, ordered or not.
CutoffVals == {Hundredths(3 * i) - Hundredths(1) : i \in 1..MaxCutoff}
CutoffConfigs == [A : CutoffVals, B : CutoffVals, C : CutoffVals]

IncomeVals == {0} \cup {120 * i : i \in 1..MaxIncome}
CreditVals == {120 * j : j \in 1..MaxCredit}
AnnuityVals == {3, 5, 6}
AgeVals == {24, 25, 60, 61}
EmploymentVals == {0, 1, 3, 10, 11}
ContractVals == {"Cash loans", "Revolving loans"}
EducationVals == {"Secondary / secondary special", "Higher education",
                  "Lower secondary"}

Applicant(income, credit, annuity, age, employment, gender, contract, education) ==
    [annual_income |-> income, credit_amount |-> credit, annuity |-> annuity,
     age |-> age, employment_years |-> employment, gender |-> gender,
     contract_type |-> contract, education |-> education]

\* Applicant records with numeric and enumerated values around every
\* threshold of the scoring block.
ScoreInputs ==
    {Applicant(Num(i), Num(c), Num(a), Num(g), Num(e), Str("F"), Str(k), Str(u)) :
        i \in IncomeVals, c \in CreditVals, a \in AnnuityVals, g \in AgeVals,
        e \in EmploymentVals, k \in ContractVals, u \in EducationVals}

\* Payloads with all eight keys: well-formed ones, and ones whose values are
\* null, wrongly typed, out of range or outside the enumerations.
Typical ==
    Applicant(Num(120), Num(480), Num(2), Num(35), Num(5), Str("F"),
              Str("Cash loans"), Str("Higher education"))
\* The applicant built from the dataset medians.
MedianApplicant ==
    Applicant(Num(147150), Num(599025), Num(27108), Num(35), Num(5), Str("F"),
              Str("Cash loans"), Str("Higher education"))
\* A young, newly employed applicant with a revolving loan and lower
\* secondary education, and the same applicant with neutral values instead.
StackedApplicant ==
    Applicant(Num(100000), Num(50000), Num(2000), Num(20), Num(0), Str("M"),
              Str("Revolving loans"), Str("Lower secondary"))
BaselineApplicant ==
    Applicant(Num(100000), Num(50000), Num(2000), Num(35), Num(5), Str("M"),
              Str("Cash loans"), Str("Secondary / secondary special"))
FullPayloads ==
    { Typical,
      MedianApplicant,
      StackedApplicant,
      BaselineApplicant,
      Applicant(Num(0), Num(-480), Num(0), Num(35), Num(5), Str("F"),
                Str("Cash loans"), Str("Incomplete higher")),
      [Typical EXCEPT !.gender = Str("M")],
      Typical @@ ("extra" :> Num(1)),
      Applicant(Num(120), Num(60), Num(7), Num(20), Num(0), Str("M"),
                Str("Revolving loans"), Str("Lower secondary")),
      Applicant(Num(120), Num(60), Num(1), Num(40), Num(11), Str("F"),
                Str("Cash loans"), Str("Academic degree")),
      Applicant(Num(0), Num(480), Num(2), Num(35), Num(5), Str("F"),
                Str("Cash loans"), Str("Incomplete higher")),
      Applicant(Null, Null, Null, Null, Null, Null, Null, Null),
      Applicant(Str("abc"), Bool(TRUE), Str("30"), Str(""), Bool(FALSE), Num(7),
                Str("Lease"), Null),
      Applicant(Num(-120), Num(480), Num(-3), Num(-5), Num(99), Str("X"),
                Str("Revolving loans"), Str("PhD")) }

\* Payloads that lack one or more of the eight keys.
PartialPayloads ==
    {[f \in K |-> Typical[f]] : K \in (SUBSET FieldSet) \ {FieldSet}}

Obj(o) == [t |-> "obj", o |-> o]

\* JSON texts a request can carry, as the value they parse to.
JsonBodies ==
    {Null, Num(5), Str("x"), Obj([other |-> Num(1)])}
    \cup {Obj([data |-> v]) : v \in {Null, Num(0), Str(""), Bool(FALSE),
                                     Num(5), Str("x"), Bool(TRUE)}}
    \cup {Obj([data |-> Obj(d)]) : d \in FullPayloads \cup PartialPayloads}

\* Request bodies: a JSON text, or something req.json() rejects.
Unparseable == [t |-> "unparseable"]
RequestBodies == JsonBodies \cup {Unparseable}

Methods == {"OPTIONS", "POST"}

----------------------------------------------------------------------------
(* predictRisk as a step of the program *)

\* function predictRisk(data) with Math.random() returning r / 1000
PredictRisk(data, r) ==
    /\ arg' = data
    /\ rnd' = r
    /\ riskScore' = RawScore(data)
    /\ baseProbability' = BaseProbability(riskScore')
    /\ result' = [probability |-> Probability(baseProbability', r),
                  bucket |-> Bucket(Probability(baseProbability', r), cutoffs)]

----------------------------------------------------------------------------
(* The Predict component of the client form: its state when mounted *)

FormFields ==
    {"income", "creditAmount", "annuity", "age", "employmentYears",
     "gender", "contractType", "education"}

\* useState(false), useState(null), useState({ income: "", ... })
InitForm ==
    /\ formData = [f \in FormFields |-> ""]
    /\ loading = FALSE
    /\ formResult = Null
    /\ toasted = None
    /\ fpc = "idle"
    /\ outbox = None /\ reply = None /\ caught = None

----------------------------------------------------------------------------
(* The serve handler *)

corsHeaders ==
    ("Access-Control-Allow-Origin" :> "*")
    @@ ("Access-Control-Allow-Headers" :>
            "authorization, x-client-info, apikey, content-type")

\* The response headers without the spread of corsHeaders.
JsonHeadersNoCors == ("Content-Type" :> "application/json")

\* { ...corsHeaders, 'Content-Type': 'application/json' }
JsonHeaders == corsHeaders @@ ("Content-Type" :> "application/json")

\* !v
Falsy(v) ==
    \/ v.t \in {"null", "undefined"}
    \/ v.t = "num" /\ v.n = 0
    \/ v.t = "str" /\ v.s = ""
    \/ v.t = "bool" /\ ~v.b

\* v.data for a non-null v: undefined unless v is an object with that key
DataOf(v) == IF v.t = "obj" THEN Get(v.o, "data") ELSE Undefined

MissingDataMessage == "Missing data field in request"
MissingFieldMessage(field) == "Missing required field: " \o field
NullBodyMessage == "Cannot read properties of null (reading 'data')"
InOperatorMessage == "Cannot use 'in' operator to search for 'annual_income'"
JsonSyntaxMessage == "Unexpected token in JSON"

\* The loop stopping one field short of the end of requiredFields.
FirstMissingSkipLast(data) ==
    LET missing == {i \in 1..(Len(Fields) - 1) : Fields[i] \notin DOMAIN data}
    IN IF missing = {} THEN 0
       ELSE CHOOSE i \in missing : \A j \in missing : i <= j

\* The loop testing !data[field] instead of !(field in data).
FirstMissingOrFalsy(data) ==
    LET missing == {i \in 1..Len(Fields) : Falsy(Get(data, Fields[i]))}
    IN IF missing = {} THEN 0
       ELSE CHOOSE i \in missing : \A j \in missing : i <= j

\* The loop remembering every absent field and reporting the last one.
FirstMissingReportsLast(data) ==
    LET missing == {i \in 1..Len(Fields) : Fields[i] \notin DOMAIN data}
    IN IF missing = {} THEN 0
       ELSE CHOOSE i \in missing : \A j \in missing : i >= j

\* Index in requiredFields of the first field that is not a key of data,
\* 0 when every field is.
FirstMissing(data) ==
    LET missing == {i \in 1..Len(Fields) : Fields[i] \notin DOMAIN data}
    IN IF missing = {} THEN 0
       ELSE CHOOSE i \in missing : \A j \in missing : i <= j

\* An Error object with the given message
Thrown(message) == [t |-> "error", message |-> message]

\* JSON.stringify(result)
SuccessBody(r) == [probability |-> Num(r.probability), bucket |-> Str(r.bucket)]

\* The error body without its details member.
ErrorBodyNoDetails(message) == [error |-> Str(message)]

\* JSON.stringify({ error: ..., details: ... })
ErrorBody(message) ==
    [error |-> Str(message), details |-> Str("Failed to process prediction request")]

\* A request reaches the handler.
Receive ==
    /\ pc \in {"idle", "done"}
    /\ \E m \in Methods, b \in RequestBodies : req' = [method |-> m, body |-> b]
    /\ pc' = "entry"
    /\ body' = None /\ error' = None /\ resp' = None /\ calls' = 0
    /\ arg' = None /\ riskScore' = None /\ baseProbability' = None
    /\ rnd' = None /\ result' = None
    /\ UNCHANGED formVars
    /\ UNCHANGED <<cutoffs, last, waiting>>

\* if (req.method === 'OPTIONS') return new Response(null, { headers })
Preflight ==
    /\ pc = "entry"
    /\ req.method = "OPTIONS"
    /\ resp' = [status |-> 200, headers |-> corsHeaders, body |-> None]
    /\ pc' = "done"
    /\ UNCHANGED formVars
    /\ UNCHANGED <<cutoffs, req, body, error, arg, riskScore, baseProbability,
                   rnd, result, calls, last, waiting>>

\* req.json() awaited whatever the method is.
ParseBodyAnyMethod ==
    /\ pc = "entry"
    /\ IF req.body = Unparseable
       THEN error' = Thrown(JsonSyntaxMessage) /\ pc' = "catch" /\ body' = body
       ELSE body' = req.body /\ pc' = "checkData" /\ error' = error
    /\ UNCHANGED formVars
    /\ UNCHANGED <<cutoffs, req, arg, riskScore, baseProbability, rnd, result,
                   resp, calls, last, waiting>>

\* const body = await req.json()
ParseBody ==
    /\ pc = "entry"
    /\ req.method # "OPTIONS"
    /\ IF req.body = Unparseable
       THEN error' = Thrown(JsonSyntaxMessage) /\ pc' = "catch" /\ body' = body
       ELSE body' = req.body /\ pc' = "checkData" /\ error' = error
    /\ UNCHANGED formVars
    /\ UNCHANGED <<cutoffs, req, arg, riskScore, baseProbability, rnd, result,
                   resp, calls, last, waiting>>

\* if (!body.data) throw new Error('Missing data field in request')
ValidateData ==
    /\ pc = "checkData"
    /\ IF body.t = "null"
       THEN error' = Thrown(NullBodyMessage) /\ pc' = "catch"
       ELSE IF Falsy(DataOf(body))
            THEN error' = Thrown(MissingDataMessage) /\ pc' = "catch"
            ELSE error' = error /\ pc' = "checkFields"
    /\ UNCHANGED formVars
    /\ UNCHANGED <<cutoffs, req, body, arg, riskScore, baseProbability, rnd,
                   result, resp, calls, last, waiting>>

\* for (const field of requiredFields) if (!(field in data)) throw ...
ValidateFields ==
    /\ pc = "checkFields"
    /\ LET data == DataOf(body)
       IN IF data.t # "obj"
          THEN error' = Thrown(InOperatorMessage) /\ pc' = "catch"
          ELSE IF FirstMissing(data.o) # 0
               THEN /\ error' = Thrown(MissingFieldMessage(Fields[FirstMissing(data.o)]))
                    /\ pc' = "catch"
               ELSE error' = error /\ pc' = "predict"
    /\ UNCHANGED formVars
    /\ UNCHANGED <<cutoffs, req, body, arg, riskScore, baseProbability, rnd,
                   result, resp, calls, last, waiting>>

\* const result = predictRisk(data)
Score ==
    /\ pc = "predict"
    /\ \E r \in RandomVals : PredictRisk(DataOf(body).o, r)
    /\ calls' = calls + 1
    /\ pc' = "respond"
    /\ UNCHANGED formVars
    /\ UNCHANGED <<cutoffs, req, body, error, resp, last, waiting>>

\* return new Response(JSON.stringify(result), { headers, status: 200 })
Respond ==
    /\ pc = "respond"
    /\ resp' = [status |-> 200, headers |-> JsonHeaders, body |-> SuccessBody(result)]
    /\ pc' = "done"
    /\ UNCHANGED formVars
    /\ UNCHANGED <<cutoffs, req, body, error, arg, riskScore, baseProbability,
                   rnd, result, calls, last, waiting>>

\* catch (error) { return new Response(JSON.stringify({error, details}), 500) }
Catch ==
    /\ pc = "catch"
    /\ resp' = [status |-> 500, headers |-> JsonHeaders, body |-> ErrorBody(error.message)]
    /\ pc' = "done"
    /\ UNCHANGED formVars
    /\ UNCHANGED <<cutoffs, req, body, error, arg, riskScore, baseProbability,
                   rnd, result, calls, last, waiting>>

Init ==
    /\ cutoffs \in CutoffConfigs
    /\ pc = "idle"
    /\ req = None /\ body = None /\ error = None /\ resp = None /\ calls = 0
    /\ arg = None /\ riskScore = None /\ baseProbability = None
    /\ rnd = None /\ result = None /\ last = None /\ waiting = {}
    /\ InitForm

Next ==
    \/ Receive
    \/ Preflight
    \/ ParseBody
    \/ ValidateData
    \/ ValidateFields
    \/ Score
    \/ Respond
    \/ Catch

Spec == Init /\ [][Next]_vars

----------------------------------------------------------------------------
(* predictRisk called directly, over applicant records around the thresholds *)

OrderedConfigs == {c \in CutoffConfigs : c.A < c.B /\ c.B < c.C}

InitScore ==
    /\ cutoffs \in OrderedConfigs
    /\ pc = "call"
    /\ arg \in ScoreInputs \cup FullPayloads
    /\ req = None /\ body = None /\ error = None /\ resp = None /\ calls = 0
    /\ riskScore = None /\ baseProbability = None
    /\ rnd = None /\ result = None /\ last = None /\ waiting = {}
    /\ InitForm

ScoreCall ==
    /\ pc = "call"
    /\ \E r \in RandomVals : PredictRisk(arg, r)
    /\ pc' = "returned"
    /\ UNCHANGED formVars
    /\ UNCHANGED <<cutoffs, req, body, error, resp, calls, last, waiting>>

NextScore == ScoreCall

SpecScore == InitScore /\ [][NextScore]_vars

----------------------------------------------------------------------------
(* Two successive predictRisk calls in one process *)

\* The latest call, as remembered when the next one is made.
ThisCall == [data |-> arg, rnd |-> rnd, riskScore |-> riskScore, result |-> result]

PairCall ==
    /\ \E data \in FullPayloads, r \in RandomVals : PredictRisk(data, r)
    /\ last' = IF arg = None THEN None ELSE ThisCall
    /\ UNCHANGED formVars
    /\ UNCHANGED <<cutoffs, pc, req, body, error, resp, calls, waiting>>

NextPair == PairCall

SpecPair == Init /\ [][NextPair]_vars

----------------------------------------------------------------------------
(* Requests served by one process, their handlers interleaving at the     *)
(* await of req.json()                                                     *)

ConcBodies ==
    { Unparseable, Null,
      Obj([data |-> Obj(Typical)]),
      Obj([data |-> Obj(StackedApplicant)]),
      Obj([data |-> Obj([f \in FieldSet \ {"education"} |-> Typical[f]])]) }
ConcRequests == [method : Methods, body : ConcBodies]

\* The request just answered, as a later request may find it remembered.
ThisAnswer ==
    [req |-> req, rnd |-> IF calls = 0 THEN None ELSE Num(rnd), resp |-> resp]

\* When the handler of an answered request is left, the answer is either
\* remembered for comparison or not.
Remembered == IF pc = "done" THEN {last, ThisAnswer} ELSE {last}

\* serve invokes the handler for a new request; the variables of
\* predictRisk keep what its latest call left in them.
Arrive ==
    /\ pc \in {"idle", "done"}
    /\ req' \in ConcRequests
    /\ pc' = "entry"
    /\ body' = None /\ error' = None /\ resp' = None /\ calls' = 0
    /\ last' \in Remembered
    /\ UNCHANGED formVars
    /\ UNCHANGED <<cutoffs, arg, riskScore, baseProbability, rnd, result, waiting>>

\* await req.json(): the handler yields until the body has been read
Await ==
    /\ pc = "entry"
    /\ req.method # "OPTIONS"
    /\ req \notin waiting
    /\ Cardinality(waiting) < MaxWaiting
    /\ waiting' = waiting \cup {req}
    /\ req' = None
    /\ pc' = "idle"
    /\ UNCHANGED formVars
    /\ UNCHANGED <<cutoffs, body, error, arg, riskScore, baseProbability, rnd,
                   result, resp, calls, last>>

\* the body of a suspended handler has been read and the handler continues
Resume ==
    /\ pc \in {"idle", "done"}
    /\ \E q \in waiting :
          /\ req' = q
          /\ waiting' = waiting \ {q}
    /\ pc' = "entry"
    /\ body' = None /\ error' = None /\ resp' = None /\ calls' = 0
    /\ last' \in Remembered
    /\ UNCHANGED formVars
    /\ UNCHANGED <<cutoffs, arg, riskScore, baseProbability, rnd, result>>

InitConc ==
    /\ cutoffs \in OrderedConfigs
    /\ pc = "idle"
    /\ req = None /\ body = None /\ error = None /\ resp = None /\ calls = 0
    /\ arg = None /\ riskScore = None /\ baseProbability = None
    /\ rnd = None /\ result = None /\ last = None /\ waiting = {}
    /\ InitForm

NextConc ==
    \/ Arrive
    \/ Await
    \/ Resume
    \/ Preflight
    \/ ParseBody
    \/ ValidateData
    \/ ValidateFields
    \/ Score
    \/ Respond
    \/ Catch

SpecConc == InitConc /\ [][NextConc]_vars

----------------------------------------------------------------------------
(* The client form: handleInputChange and handlePredict.  The edge function *)
(* is reached through supabase.functions.invoke, a library call that either *)
(* resolves to { data, error } or rejects.                                   *)

\* The strings the inputs and selects of the form can hold.
FormValues ==
    [income |-> {"", "0"},
     creditAmount |-> {"", "480"},
     annuity |-> {"", "6"},
     age |-> {"", "35"},
     employmentYears |-> {"", "1.5"},
     gender |-> {"", "F"},
     contractType |-> {"", "Cash loans"},
     education |-> {"", "Higher education"}]

\* parseFloat(s) for the strings above
ParseFloat(s) ==
    CASE s = "0" -> Num(0)
      [] s = "480" -> Num(480)
      [] s = "6" -> Num(6)
      [] OTHER -> Null          \* NaN, which JSON.stringify writes as null

\* parseInt(s): the leading digits of s
ParseInt(s) ==
    CASE s = "35" -> Num(35)
      [] s = "1.5" -> Num(1)
      [] OTHER -> Null

\* The fields counted empty, testing the five typed inputs only.
EmptyTypedFields(form) ==
    {f \in {"income", "creditAmount", "annuity", "age", "employmentYears"} :
        form[f] = ""}

\* Object.entries(formData).filter(([_, value]) => !value)
EmptyFields(form) == {f \in FormFields : form[f] = ""}

\* The body handed to invoke
InvokeBody(form) ==
    Obj([data |-> Obj(
        [annual_income |-> ParseFloat(form["income"]),
         credit_amount |-> ParseFloat(form["creditAmount"]),
         annuity |-> ParseFloat(form["annuity"]),
         age |-> ParseInt(form["age"]),
         employment_years |-> ParseInt(form["employmentYears"]),
         gender |-> Str(form["gender"]),
         contract_type |-> Str(form["contractType"]),
         education |-> Str(form["education"])])])

Toast(title, description) == [title |-> title, description |-> description]

MissingInformation ==
    Toast("Missing Information", "Please fill in all fields before predicting.")
PredictionComplete ==
    Toast("Prediction Complete", "Risk analysis has been calculated successfully.")
PredictionFailed(description) == Toast("Prediction Failed", description)

\* What invoke can resolve to: a parsed response body, an error object, or
\* neither.
InvokeData ==
    {Obj([probability |-> Num(Hundredths(12)), bucket |-> Str("B")]),
     Obj([message |-> Str("ok")])}
InvokeErrors ==
    {Thrown("Edge Function returned a non-2xx status code"), Thrown("")}
InvokeReplies ==
    {[data |-> d, error |-> Null] : d \in InvokeData}
    \cup {[data |-> Null, error |-> e] : e \in InvokeErrors}
    \cup {[data |-> Null, error |-> Null]}

\* What a rejected invoke or a failing statement can throw: an Error or
\* another value.
ThrownValues == {Thrown("Failed to fetch"), Str("aborted")}

\* handleInputChange(field, value): an input event, handled while no
\* statement of handlePredict is running
HandleInputChange ==
    /\ fpc \in {"idle", "awaiting"}
    /\ \E f \in FormFields :
          \E v \in FormValues[f] : formData' = [formData EXCEPT ![f] = v]
    /\ UNCHANGED <<loading, formResult, toasted, fpc, outbox, reply, caught>>
    /\ UNCHANGED serverVars

\* A click on the button, which is disabled while loading, with an empty
\* field: the notice and return.
RejectEmpty ==
    /\ fpc = "idle" /\ ~loading
    /\ EmptyFields(formData) # {}
    /\ toasted' = MissingInformation
    /\ UNCHANGED <<formData, loading, formResult, fpc, outbox, reply, caught>>
    /\ UNCHANGED serverVars

\* A click with no field empty: setLoading(true)
StartLoading ==
    /\ fpc = "idle" /\ ~loading
    /\ EmptyFields(formData) = {}
    /\ loading' = TRUE
    /\ fpc' = "try"
    /\ UNCHANGED <<formData, formResult, toasted, outbox, reply, caught>>
    /\ UNCHANGED serverVars

\* supabase.functions.invoke('predict-risk', { body }) is called and awaited
Invoke ==
    /\ fpc = "try"
    /\ outbox' = InvokeBody(formData)
    /\ fpc' = "awaiting"
    /\ reply' = None /\ caught' = None
    /\ UNCHANGED <<formData, loading, formResult, toasted>>
    /\ UNCHANGED serverVars

\* The awaited promise resolves to { data, error }.
InvokeResolves ==
    /\ fpc = "awaiting"
    /\ reply' \in InvokeReplies
    /\ outbox' = None
    /\ fpc' = "checkError"
    /\ UNCHANGED <<formData, loading, formResult, toasted, caught>>
    /\ UNCHANGED serverVars

\* The awaited promise rejects.
InvokeRejects ==
    /\ fpc = "awaiting"
    /\ caught' \in ThrownValues
    /\ outbox' = None
    /\ fpc' = "catch"
    /\ UNCHANGED <<formData, loading, formResult, toasted, reply>>
    /\ UNCHANGED serverVars

\* if (error) throw new Error(error.message || 'Prediction failed')
CheckError ==
    /\ fpc = "checkError"
    /\ IF reply.error # Null
       THEN /\ caught' = Thrown(IF reply.error.message = ""
                                THEN "Prediction failed"
                                ELSE reply.error.message)
            /\ fpc' = "catch"
       ELSE caught' = caught /\ fpc' = "checkData"
    /\ UNCHANGED <<formData, loading, formResult, toasted, outbox, reply>>
    /\ UNCHANGED serverVars

\* if (!data) throw new Error('No data returned from prediction')
CheckData ==
    /\ fpc = "checkData"
    /\ IF Falsy(reply.data)
       THEN caught' = Thrown("No data returned from prediction") /\ fpc' = "catch"
       ELSE caught' = caught /\ fpc' = "setResult"
    /\ UNCHANGED <<formData, loading, formResult, toasted, outbox, reply>>
    /\ UNCHANGED serverVars

\* setResult({ probability: data.probability, riskBucket: data.bucket })
\* and the "Prediction Complete" notice
SetResult ==
    /\ fpc = "setResult"
    /\ formResult' = [probability |-> Get(reply.data.o, "probability"),
                      riskBucket |-> Get(reply.data.o, "bucket")]
    /\ toasted' = PredictionComplete
    /\ fpc' = "finally"
    /\ UNCHANGED <<formData, loading, outbox, reply, caught>>
    /\ UNCHANGED serverVars

\* The catch block ending handlePredict without running the finally block.
CatchErrorAndReturn ==
    /\ fpc = "catch"
    /\ toasted' = PredictionFailed(IF caught.t = "error" THEN caught.message
                                   ELSE "Failed to process prediction request")
    /\ fpc' = "idle"
    /\ reply' = None /\ caught' = None
    /\ UNCHANGED <<formData, loading, formResult, outbox>>
    /\ UNCHANGED serverVars

\* catch (error) { toast({ title: "Prediction Failed", ... }) }
CatchError ==
    /\ fpc = "catch"
    /\ toasted' = PredictionFailed(IF caught.t = "error" THEN caught.message
                                   ELSE "Failed to process prediction request")
    /\ fpc' = "finally"
    /\ UNCHANGED <<formData, loading, formResult, outbox, reply, caught>>
    /\ UNCHANGED serverVars

\* finally { setLoading(false) }, and handlePredict returns
Finally ==
    /\ fpc = "finally"
    /\ loading' = FALSE
    /\ fpc' = "idle"
    /\ reply' = None /\ caught' = None
    /\ UNCHANGED <<formData, formResult, toasted, outbox>>
    /\ UNCHANGED serverVars

\* The component is mounted; the server's variables play no part.
InitClient ==
    /\ cutoffs = CHOOSE c \in OrderedConfigs : TRUE
    /\ pc = "idle"
    /\ req = None /\ body = None /\ error = None /\ resp = None /\ calls = 0
    /\ arg = None /\ riskScore = None /\ baseProbability = None
    /\ rnd = None /\ result = None /\ last = None /\ waiting = {}
    /\ InitForm

\* The statements of handlePredict that run once invoke has settled.
AfterSettling ==
    \/ CheckError
    \/ CheckData
    \/ SetResult
    \/ CatchError
    \/ Finally

NextForm ==
    \/ HandleInputChange
    \/ RejectEmpty
    \/ StartLoading
    \/ Invoke
    \/ InvokeResolves
    \/ InvokeRejects
    \/ CheckError
    \/ CheckData
    \/ SetResult
    \/ CatchError
    \/ Finally

SpecForm == InitClient /\ [][NextForm]_vars

\* The event loop runs the continuation of handlePredict once the awaited
\* promise has settled.
SpecFormLive == SpecForm /\ WF_vars(AfterSettling)

----------------------------------------------------------------------------
(* The rule table of the scoring algorithm: one row per condition, with   *)
(* the adjustment it contributes, in hundredths.                           *)

RuleRows == 1..13

RowAdjustment == <<8, 5, 3, 6, 3, 4, 2, 5, 3, -2, 2, -2, 2>>

RowHolds(row, data) ==
    LET cti == creditToIncome(data)
        dti == debtToIncome(data)
        age == ToNumber(Get(data, "age"))
        emp == ToNumber(Get(data, "employment_years"))
    IN CASE row = 1 -> RatioGt(cti, 3, 1)
         [] row = 2 -> RatioGt(cti, 2, 1) /\ ~RatioGt(cti, 3, 1)
         [] row = 3 -> RatioGt(cti, 1, 1) /\ ~RatioGt(cti, 2, 1)
         [] row = 4 -> RatioGt(dti, 1, 2)
         [] row = 5 -> RatioGt(dti, 3, 10) /\ ~RatioGt(dti, 1, 2)
         [] row = 6 -> NumLt(age, 25)
         [] row = 7 -> NumGt(age, 60)
         [] row = 8 -> NumLt(emp, 1)
         [] row = 9 -> NumLt(emp, 3) /\ ~NumLt(emp, 1)
         [] row = 10 -> NumGt(emp, 10)
         [] row = 11 -> Get(data, "contract_type") = Str("Revolving loans")
         [] row = 12 -> Get(data, "education") \in {Str("Academic degree"),
                                                    Str("Higher education")}
         [] row = 13 -> Get(data, "education") = Str("Lower secondary")

RECURSIVE SumAdjustments(_)
SumAdjustments(rows) ==
    IF rows = {} THEN 0
    ELSE LET row == CHOOSE x \in rows : TRUE
         IN Hundredths(RowAdjustment[row]) + SumAdjustments(rows \ {row})

TableSum(data) == SumAdjustments({row \in RuleRows : RowHolds(row, data)})

\* TRUE iff running the statement groups of todo from accumulator s, in
\* every possible order, ends with the accumulator equal to final.
RECURSIVE EveryOrderGives(_, _, _, _)
EveryOrderGives(todo, s, data, final) ==
    IF todo = {} THEN s = final
    ELSE \A g \in todo :
            EveryOrderGives(todo \ {g}, ApplyGroup(g, s, data), data, final)

----------------------------------------------------------------------------
(* Claims *)

C2_ClampedBase ==
    pc = "returned" =>
        LET base == result.probability - Perturbation(rnd)
        IN /\ base = baseProbability
           /\ riskScore < 0 => base = 0
           /\ (0 <= riskScore /\ riskScore <= Hundredths(40)) => base = riskScore
           /\ riskScore > Hundredths(40) => base = Hundredths(40)

\* C2 witness: a negative raw score is clamped to 0.
C2_Witness ==
    /\ pc = "returned"
    /\ riskScore = -Hundredths(4)
    /\ baseProbability = 0

BucketRank == [A |-> 1, B |-> 2, C |-> 3, D |-> 4]

\* C3: the bucket of a prediction is the first of A, B, C whose cutoff is
\* at least the probability, and D when there is none; a probability equal
\* to a cutoff gets that cutoff's bucket unless an earlier one applies.
C3_FirstCutoffAtLeast ==
    result # None =>
        LET p == result.probability
            fit == {b \in {"A", "B", "C"} : cutoffs[b] >= p}
        IN /\ fit = {} => result.bucket = "D"
           /\ fit # {} =>
                /\ result.bucket \in fit
                /\ \A b \in fit : BucketRank[result.bucket] <= BucketRank[b]
           /\ \A b \in {"A", "B", "C"} :
                (p = cutoffs[b] /\ \A a \in fit : BucketRank[b] <= BucketRank[a])
                    => result.bucket = b

\* C3 witness: a probability exactly equal to the B cutoff, above the A
\* cutoff, is served bucket B.
C3_Witness ==
    /\ pc = "done"
    /\ result # None
    /\ result.probability = cutoffs.B
    /\ result.probability > cutoffs.A
    /\ cutoffs.C > cutoffs.B
    /\ result.bucket = "B"

\* C4: of two predictions made under the same cutoffs, the one with the
\* strictly larger probability never gets a safer bucket (A < B < C < D).
C4_BucketMonotonic ==
    (last # None /\ last.result.probability < result.probability) =>
        BucketRank[last.result.bucket] <= BucketRank[result.bucket]

\* C4 witness: two predictions with increasing probability and strictly
\* riskier bucket.
C4_Witness ==
    /\ last # None
    /\ last.result.probability < result.probability
    /\ last.result.bucket = "A"
    /\ result.bucket = "C"

\* The data payload of the request being served, None when the body is not
\* an object holding an object under "data".
PayloadKeys ==
    IF req # None /\ req.body.t = "obj" /\ DataOf(req.body).t = "obj"
    THEN DOMAIN DataOf(req.body).o
    ELSE {}
HasPayload == req # None /\ req.body.t = "obj" /\ DataOf(req.body).t = "obj"
Answered == pc = "done" /\ req.method # "OPTIONS"

\* C5: a request whose payload has seven of the eight required keys and
\* lacks the eighth is answered with an error response whose message names
\* that field and no other.
C5_MissingFieldNamed ==
    \A f \in FieldSet :
        (Answered /\ HasPayload /\ PayloadKeys \cap FieldSet = FieldSet \ {f}) =>
            /\ resp.status = 500
            /\ resp.body.error = Str("Missing required field: " \o f)
            /\ \A g \in FieldSet \ {f} :
                  resp.body.error # Str("Missing required field: " \o g)

\* C5 witness: the payload lacking only education, the last field checked,
\* has been answered.
C5_Witness ==
    /\ Answered /\ HasPayload
    /\ PayloadKeys = FieldSet \ {"education"}
    /\ resp.body.error = Str("Missing required field: education")

\* C6: a request whose payload has all eight required keys never raises a
\* missing-field error and is scored, whatever the values under the keys.
C6_PresenceOnly ==
    (HasPayload /\ FieldSet \subseteq PayloadKeys /\ req.method # "OPTIONS") =>
        /\ error = None
        /\ pc # "catch"
        /\ pc = "done" => (calls = 1 /\ resp.status = 200 /\ result # None)

\* C6 witness: the payload whose eight values are all null has been scored.
C6_Witness ==
    /\ Answered /\ HasPayload
    /\ \A f \in FieldSet : f \in PayloadKeys /\ DataOf(req.body).o[f] = Null
    /\ calls = 1
    /\ resp.status = 200

\* A parsed body with no data payload: not an object, no data key, or a
\* null or otherwise falsy value under it.
NoDataPayload(b) ==
    /\ b # Unparseable
    /\ IF b.t = "obj" THEN Falsy(Get(b.o, "data")) ELSE TRUE

\* C7: a request with no data payload is answered with status 500 and the
\* message "Missing data field in request", and predictRisk is not called.
C7_MissingData ==
    (Answered /\ NoDataPayload(req.body)) =>
        /\ resp.status = 500
        /\ resp.body.error = Str("Missing data field in request")
        /\ calls = 0

\* C8: a non-preflight request is answered either with status 200 and a
\* body of exactly a numeric probability and a bucket in {A, B, C, D}, or
\* with status 500 and a body of exactly an error message and a details
\* string; an unparseable body, a missing payload and a missing field give
\* the second.
C8_SuccessShape ==
    /\ resp.status = 200
    /\ DOMAIN resp.body = {"probability", "bucket"}
    /\ resp.body.probability.t = "num"
    /\ resp.body.bucket \in {Str("A"), Str("B"), Str("C"), Str("D")}
C8_ErrorShape ==
    /\ resp.status = 500
    /\ DOMAIN resp.body = {"error", "details"}
    /\ resp.body.error.t = "str"
    /\ resp.body.details.t = "str"
C8_TwoOutcomes ==
    Answered =>
        /\ C8_SuccessShape \/ C8_ErrorShape
        /\ ~(C8_SuccessShape /\ C8_ErrorShape)
        /\ ( \/ req.body = Unparseable
             \/ NoDataPayload(req.body)
             \/ (HasPayload /\ ~(FieldSet \subseteq PayloadKeys)) ) => C8_ErrorShape

\* C8 witness: an unparseable body has been answered with the error shape.
C8_Witness ==
    /\ Answered
    /\ req.body = Unparseable
    /\ C8_ErrorShape

AllowList == "authorization, x-client-info, apikey, content-type"

\* C9 as stated: every response carries headers allowing any origin, naming
\* the allowed methods and listing the allow-list of request headers.
C9_CorsWithMethods ==
    resp # None =>
        /\ "Access-Control-Allow-Origin" \in DOMAIN resp.headers
        /\ resp.headers["Access-Control-Allow-Origin"] = "*"
        /\ "Access-Control-Allow-Methods" \in DOMAIN resp.headers
        /\ "Access-Control-Allow-Headers" \in DOMAIN resp.headers
        /\ resp.headers["Access-Control-Allow-Headers"] = AllowList

\* C9 amended: every response (preflight, success, error) carries headers
\* allowing any origin and listing the fixed allow-list of request headers;
\* none carries a header naming allowed methods.
C9_CorsOriginAndHeaders ==
    resp # None =>
        /\ "Access-Control-Allow-Origin" \in DOMAIN resp.headers
        /\ resp.headers["Access-Control-Allow-Origin"] = "*"
        /\ "Access-Control-Allow-Headers" \in DOMAIN resp.headers
        /\ resp.headers["Access-Control-Allow-Headers"] = AllowList
        /\ "Access-Control-Allow-Methods" \notin DOMAIN resp.headers

\* C9 witness: an error response has been produced with the two headers.
C9_Witness ==
    /\ pc = "done"
    /\ resp.status = 500
    /\ resp.headers["Access-Control-Allow-Origin"] = "*"
    /\ resp.headers["Access-Control-Allow-Headers"] = AllowList

\* C10: two predictRisk calls with the same record, the same cutoffs and
\* the same Math.random() value return the same probability and bucket.
C10_Deterministic ==
    (last # None /\ last.data = arg /\ last.rnd = rnd) =>
        /\ result.probability = last.result.probability
        /\ result.bucket = last.result.bucket

\* C10 witness: a call has been repeated with the same record and random
\* value, and a non-zero raw score.
C10_Witness ==
    /\ last # None
    /\ last.data = arg
    /\ last.rnd = rnd
    /\ riskScore > 0
    /\ result = last.result

\* The answered request and an earlier answered request carried the same
\* method and body and drew the same Math.random() value.
SameRequestAsRemembered ==
    /\ pc = "done"
    /\ last # None
    /\ last.req = req
    /\ last.rnd = (IF calls = 0 THEN None ELSE Num(rnd))
C11_SameAnswer == SameRequestAsRemembered => resp = last.resp

\* C11: whatever requests were served or suspended in between, a request
\* gets the response that an earlier request with the same method, body
\* and Math.random() value got, and no step changes the loaded cutoffs.
C11_Stateless == []C11_SameAnswer /\ [][cutoffs' = cutoffs]_vars

\* C11 witness: a scored request has been answered like an earlier identical
\* one while another request is suspended.
C11_Witness ==
    /\ SameRequestAsRemembered
    /\ calls = 1
    /\ resp = last.resp
    /\ waiting # {}

\* C12: the probability of every success response lies in [0, 1].
C12_ProbabilityInUnitInterval ==
    (pc = "done" /\ req.method # "OPTIONS" /\ resp.status = 200) =>
        /\ resp.body.probability.n >= 0
        /\ resp.body.probability.n <= Hundredths(100)

Groups(order) == {order[i] : i \in 1..Len(order)}

\* What statement group g added to riskScore in the latest predictRisk call:
\* riskScore less what the other groups give from 0.
Contribution(g) ==
    riskScore - ScoreInOrder(SelectSeq(CodeOrder, LAMBDA x : x # g), 0, arg)

\* C13: predictRisk is invoked only for a request whose body has been
\* parsed and whose payload passed both validation steps, a success response
\* is built only after predictRisk has returned, and no request that failed
\* parsing or validation is ever scored.
C13_ScoreAfterValidation ==
    [][ /\ (calls' = calls + 1) =>
              /\ body = req.body
              /\ ~Falsy(DataOf(body))
              /\ DataOf(body).t = "obj"
              /\ FieldSet \subseteq DOMAIN DataOf(body).o
              /\ error = None
        /\ (body' # body /\ body' # None) => (calls = 0 /\ error = None)
        /\ (resp = None /\ resp' # None /\ resp'.status = 200
                /\ req.method # "OPTIONS") => (calls = 1 /\ result # None)
        /\ (error' # None) => calls' = 0 ]_vars

\* C13 witness: predictRisk has returned for a parsed, validated request and
\* the response is still to be built.
C13_Witness ==
    /\ pc = "respond"
    /\ calls = 1
    /\ body = req.body
    /\ FieldSet \subseteq DOMAIN DataOf(body).o
    /\ resp = None

\* C14: the returned probability is the raw score clamped to [0, 0.4] plus
\* the perturbation Math.random() * 0.02 - 0.01, with no clamp after the
\* addition; the perturbation lies in [-0.01, 0.01] and the probability in
\* [-0.01, 0.41].
C14_ClampThenPerturb ==
    pc = "returned" =>
        LET clamped == IF riskScore < 0 THEN 0
                       ELSE IF riskScore > Hundredths(40) THEN Hundredths(40)
                       ELSE riskScore
            noise == 2 * rnd - Hundredths(1)
        IN /\ -Hundredths(1) <= noise /\ noise <= Hundredths(1)
           /\ result.probability = clamped + noise
           /\ -Hundredths(1) <= result.probability
           /\ result.probability <= Hundredths(41)

\* C14 witness: a raw score of 0 or less with Math.random() = 0 returns the
\* unclamped probability -0.01.
C14_Witness ==
    /\ pc = "returned"
    /\ riskScore <= 0
    /\ rnd = 0
    /\ result.probability = -Hundredths(1)

\* The probability predictRisk returns for data when Math.random() is r / 1000
ProbabilityFor(data, r) == Probability(BaseProbability(RawScore(data)), r)

\* C15 as stated: once predictRisk has returned, some record and
\* perturbation give a negative probability, and some record and
\* perturbation give a probability above 0.4.
C15_OutsideOnBothSides ==
    pc = "returned" =>
        /\ \E data \in ScoreInputs \cup FullPayloads, r \in RandomVals :
              ProbabilityFor(data, r) < 0
        /\ \E data \in ScoreInputs \cup FullPayloads \cup {arg}, r \in RandomVals :
              ProbabilityFor(data, r) > Hundredths(40)

\* C15 amended: the probability can be negative, as low as -0.01 and no
\* lower, but it never exceeds 0.4: the raw score is at most 0.27 and the
\* probability stays below 0.28.
C15_BelowZeroNeverAboveCap ==
    pc = "returned" =>
        /\ result.probability >= -Hundredths(1)
        /\ riskScore <= Hundredths(27)
        /\ result.probability < Hundredths(28)
        /\ result.probability <= Hundredths(40)

\* C15 witness: a record with a negative raw score has been given a
\* negative probability.
C15_Witness ==
    /\ pc = "returned"
    /\ riskScore < 0
    /\ baseProbability = 0
    /\ result.probability < 0

\* The number under a key of the scored record, as a fraction of the number
\* under annual_income, is exactly n/d (income positive).
RatioIs(num, n, d) ==
    /\ ToNumber(Get(arg, "annual_income")).k = "fin"
    /\ ToNumber(Get(arg, "annual_income")).n > 0
    /\ num.k = "fin"
    /\ num.n * d = n * ToNumber(Get(arg, "annual_income")).n
NumberIs(field, n) == ToNumber(Get(arg, field)) = Fin(n)

C17_MedianScenario ==
    (pc = "returned" /\ arg = MedianApplicant) =>
        /\ Contribution(1) = Hundredths(8)
        /\ Contribution(6) = -Hundredths(2)
        /\ \A g \in RuleGroups \ {1, 6} : Contribution(g) = 0
        /\ riskScore = Hundredths(6)
        /\ baseProbability = Hundredths(6)

\* C17 amended: for the median applicant the adjustments are +0.08 for
\* credit-to-income > 3, +0.06 for debt-to-income (27108 * 12 / 147150,
\* about 2.21) > 0.5 and -0.02 for education, and no other, so the raw score
\* and the clamped score are both 0.12.
C17_MedianScenarioWithDebt ==
    (pc = "returned" /\ arg = MedianApplicant) =>
        /\ Contribution(1) = Hundredths(8)
        /\ Contribution(2) = Hundredths(6)
        /\ Contribution(6) = -Hundredths(2)
        /\ \A g \in RuleGroups \ {1, 2, 6} : Contribution(g) = 0
        /\ {row \in RuleRows : RowHolds(row, arg)} = {1, 4, 12}
        /\ riskScore = Hundredths(12)
        /\ baseProbability = Hundredths(12)

\* C17 witness: the median applicant has been scored 0.12.
C17_Witness ==
    /\ pc = "returned"
    /\ arg = MedianApplicant
    /\ riskScore = Hundredths(12)

\* The four risk factors of a record, and their absence.
HasAllFourFactors(data) ==
    /\ NumLt(ToNumber(Get(data, "age")), 25)
    /\ NumLt(ToNumber(Get(data, "employment_years")), 1)
    /\ Get(data, "contract_type") = Str("Revolving loans")
    /\ Get(data, "education") = Str("Lower secondary")
HasNeutralFactors(data) ==
    /\ ToNumber(Get(data, "age")).k = "fin"
    /\ ToNumber(Get(data, "age")).n >= 25 /\ ToNumber(Get(data, "age")).n <= 60
    /\ ToNumber(Get(data, "employment_years")).k = "fin"
    /\ ToNumber(Get(data, "employment_years")).n >= 3
    /\ ToNumber(Get(data, "employment_years")).n <= 10
    /\ Get(data, "contract_type") # Str("Revolving loans")
    /\ Get(data, "education") \notin {Str("Lower secondary"), Str("Academic degree"),
                                       Str("Higher education")}
SameAmounts(d1, d2) ==
    \A f \in {"annual_income", "credit_amount", "annuity"} : Get(d1, f) = Get(d2, f)

\* C18: an applicant with age < 25, employment < 1 year, a revolving loan
\* and lower secondary education gets the four adjustments 0.04, 0.05, 0.02
\* and 0.02 together, and so a raw score 0.13 above that of an applicant
\* with the same income, credit and annuity and neutral age, employment,
\* contract type and education.
C18_FactorsStack ==
    (last # None /\ HasAllFourFactors(arg) /\ HasNeutralFactors(last.data)
        /\ SameAmounts(arg, last.data)) =>
        /\ Contribution(3) = Hundredths(4)
        /\ Contribution(4) = Hundredths(5)
        /\ Contribution(5) = Hundredths(2)
        /\ Contribution(6) = Hundredths(2)
        /\ riskScore = last.riskScore + Hundredths(13)
        /\ riskScore > last.riskScore

\* C18 witness: the applicant aged 20 with no employment, income 100000,
\* credit 50000 and annuity 2000 has been scored after the baseline one.
C18_Witness ==
    /\ last # None
    /\ arg = StackedApplicant
    /\ last.data = BaselineApplicant
    /\ riskScore = Hundredths(13)
    /\ last.riskScore = 0

\* Two records with the same keys and the same value under every key but
\* gender.
DifferOnlyInGender(d1, d2) ==
    /\ DOMAIN d1 = DOMAIN d2
    /\ \A f \in DOMAIN d1 \ {"gender"} : d1[f] = d2[f]
    /\ d1["gender"] # d2["gender"]

ZeroIncomeAnswered ==
    /\ Answered /\ HasPayload
    /\ FieldSet \subseteq PayloadKeys
    /\ DataOf(req.body).o["annual_income"] = Num(0)
NonFinite(x) == x.k \in {"pinf", "ninf", "nan"}

\* C20 as stated: a request with income 0 is not rejected; its ratios are
\* infinite or NaN, no credit-to-income or debt-to-income adjustment is
\* applied, and the returned probability is not a finite number.
C20_ZeroIncomeNoAdjustment ==
    ZeroIncomeAnswered =>
        /\ resp.status = 200 /\ calls = 1
        /\ NonFinite(creditToIncome(arg)) /\ NonFinite(debtToIncome(arg))
        /\ Contribution(1) = 0
        /\ Contribution(2) = 0
        /\ resp.body.probability.t # "num"

\* C20 amended: a request with income 0 is not rejected; its ratios are
\* +Infinity, -Infinity or NaN; a positive credit (ratio +Infinity) gets
\* +0.08 and a positive annuity +0.06, since Infinity exceeds every
\* threshold, while a zero or negative credit or annuity gets nothing; the
\* returned probability is the finite number clamp(raw score) + perturbation.
C20_ZeroIncomeFiniteScore ==
    ZeroIncomeAnswered =>
        LET credit == ToNumber(Get(arg, "credit_amount"))
            annuity == ToNumber(Get(arg, "annuity"))
        IN /\ resp.status = 200 /\ calls = 1
           /\ arg = DataOf(req.body).o
           /\ NonFinite(creditToIncome(arg)) /\ NonFinite(debtToIncome(arg))
           /\ Contribution(1) = IF NumGt(credit, 0) THEN Hundredths(8) ELSE 0
           /\ Contribution(2) = IF NumGt(annuity, 0) THEN Hundredths(6) ELSE 0
           /\ resp.body.probability.t = "num"
           /\ resp.body.probability.n =
                 Max(0, Min(Hundredths(40), riskScore)) + 2 * rnd - Hundredths(1)

\* C20 witness: income 0 with positive credit and annuity has been scored
\* 0.14 and answered with a number.
C20_Witness ==
    /\ ZeroIncomeAnswered
    /\ creditToIncome(arg) = PInf
    /\ debtToIncome(arg) = PInf
    /\ riskScore = Hundredths(14)
    /\ resp.body.probability.t = "num"

\* C21: a request with method OPTIONS is answered at once with a bodiless
\* response: from its arrival to its answer its body is never parsed,
\* validation and scoring never run, and no error response is produced,
\* whatever its body contains.
C21_PreflightFirst ==
    (req # None /\ req.method = "OPTIONS") =>
        /\ pc \in {"entry", "done"}
        /\ body = None /\ error = None
        /\ calls = 0 /\ arg = None /\ result = None
        /\ pc = "done" =>
              /\ resp.status = 200
              /\ resp.body = None
              /\ resp.headers = corsHeaders

\* C21 witness: an OPTIONS request whose body is not JSON has been answered.
C21_Witness ==
    /\ pc = "done"
    /\ req.method = "OPTIONS"
    /\ req.body = Unparseable
    /\ resp.body = None
    /\ body = None

----------------------------------------------------------------------------
(* The score as computed in IEEE-754 double precision *)

\* A double of magnitude below 1 that is a multiple of 2^-60, as its number of
\* units of 2^-60, written hi * Limb + lo with 0 <= lo < Limb.
Limb == 2^29
Big(hi, lo) == [hi |-> hi, lo |-> lo]
Zero == Big(0, 0)

BigAdd(x, y) ==
    LET l == x.lo + y.lo
    IN Big(x.hi + y.hi + (IF l >= Limb THEN 1 ELSE 0), l % Limb)
BigNeg(x) == IF x.lo = 0 THEN Big(-x.hi, 0) ELSE Big(-x.hi - 1, Limb - x.lo)
BigLe(x, y) == x.hi < y.hi \/ (x.hi = y.hi /\ x.lo <= y.lo)
BigLt(x, y) == ~BigLe(y, x)
BigAbs(x) == IF x.hi < 0 THEN BigNeg(x) ELSE x

\* The distance between neighbouring doubles around a magnitude m, in units:
\* 2^-52 times the power of two at or below m.
Spacing(m) ==
    IF m.hi >= 2 * Limb THEN 128          \* [1/2, 1)
    ELSE IF m.hi >= Limb THEN 64          \* [1/4, 1/2)
    ELSE IF m.hi >= Limb \div 2 THEN 32   \* [1/8, 1/4)
    ELSE IF m.hi >= Limb \div 4 THEN 16
    ELSE IF m.hi >= Limb \div 8 THEN 8
    ELSE IF m.hi >= Limb \div 16 THEN 4
    ELSE IF m.hi >= Limb \div 32 THEN 2
    ELSE 1

\* The double nearest to an exact sum x, ties to the even mantissa.
RoundToDouble(x) ==
    LET m == BigAbs(x)
        g == Spacing(m)
        rem == m.lo % g
        down == m.lo - rem
        lo == IF 2 * rem < g THEN down
              ELSE IF 2 * rem > g THEN down + g
              ELSE IF (down \div g) % 2 = 0 THEN down ELSE down + g
        r == IF lo = Limb THEN Big(m.hi + 1, 0) ELSE Big(m.hi, lo)
    IN IF x.hi < 0 THEN BigNeg(r) ELSE r

\* x + y on doubles
DblAdd(x, y) == RoundToDouble(BigAdd(x, y))

\* The double that the decimal literal h/100 denotes.
DoubleOf(h) ==
    CASE h = 1 -> Big(21474836, 257698038)     \* 0x1.47ae147ae147bp-7
      [] h = 2 -> Big(42949672, 515396076)     \* 0x1.47ae147ae147bp-6
      [] h = 3 -> Big(64424509, 236223200)     \* 0x1.eb851eb851eb8p-6
      [] h = 4 -> Big(85899345, 493921240)     \* 0x1.47ae147ae147bp-5
      [] h = 5 -> Big(107374182, 214748368)    \* 0x1.999999999999ap-5
      [] h = 6 -> Big(128849018, 472446400)    \* 0x1.eb851eb851eb8p-5
      [] h = 8 -> Big(171798691, 450971568)    \* 0x1.47ae147ae147bp-4
      [] h = 27 -> Big(579820584, 515396096)   \* 0x1.147ae147ae148p-2
      [] h = 28 -> Big(601295421, 236223232)   \* 0x1.1eb851eb851ecp-2
      [] h = 40 -> Big(858993459, 107374208)   \* 0x1.999999999999ap-2

\* riskScore += adj / riskScore -= adj for the adjustment a statement group
\* makes, adj in the units of Hundredths; no statement runs when it is 0.
AddLiteral(d, adj) ==
    IF adj = 0 THEN d
    ELSE IF adj > 0 THEN DblAdd(d, DoubleOf(adj \div Hundredths(1)))
    ELSE DblAdd(d, BigNeg(DoubleOf((-adj) \div Hundredths(1))))

\* The double accumulator after the statement groups listed in order have run.
RECURSIVE DoubleScoreInOrder(_, _, _)
DoubleScoreInOrder(order, d, data) ==
    IF order = <<>> THEN d
    ELSE DoubleScoreInOrder(Tail(order),
                            AddLiteral(d, ApplyGroup(Head(order), 0, data)), data)

\* riskScore at line 111, as a double
RawScoreDouble(data) == DoubleScoreInOrder(CodeOrder, Zero, data)

\* Math.max(0, Math.min(0.4, s)) on doubles
BaseProbabilityDouble(s) ==
    LET capped == IF BigLt(DoubleOf(40), s) THEN DoubleOf(40) ELSE s
    IN IF BigLt(capped, Zero) THEN Zero ELSE capped

\* Math.random() * 0.02 - 0.01 for Math.random() = 0, 1/2 and 1 - 2^-53, the
\* largest value it returns. The product with 1/2 is 0.01 exactly; the product
\* with 1 - 2^-53 is the double just below 0.02.
NoiseDoubles ==
    {DblAdd(Zero, BigNeg(DoubleOf(1))),
     DblAdd(DoubleOf(1), BigNeg(DoubleOf(1))),
     DblAdd(BigAdd(DoubleOf(2), BigNeg(Big(0, Spacing(DoubleOf(2))))),
            BigNeg(DoubleOf(1)))}

\* The double after d
Succ(d) == BigAdd(d, Big(0, Spacing(d)))

\* C22 as stated: for every input the raw score lies in [-0.04, 0.27], the
\* upper bound 0.4 of the clamp never binds (the clamp only raises negative
\* scores to 0), and the returned probability never exceeds 0.28. Stated of
\* the values the code computes, which are doubles.
C22_RawScoreRange ==
    pc = "returned" =>
        LET s == RawScoreDouble(arg)
        IN /\ BigLe(BigNeg(DoubleOf(4)), s)
           /\ BigLe(s, DoubleOf(27))
           /\ BigLt(s, DoubleOf(40))
           /\ \A n \in NoiseDoubles :
                 BigLe(DblAdd(BaseProbabilityDouble(s), n), DoubleOf(28))

\* C22 amended: in exact arithmetic the raw score lies in [-0.04, 0.27] and
\* the probability stays below 0.28; the doubles the code computes may lie one
\* rounding step above these: the raw score is at least -0.04 and at most
\* 0.2700000000000001, the double after 0.27, and the probability at most
\* 0.2800000000000001, the double after 0.28. The upper bound 0.4 of the
\* clamp never binds: the clamp only raises negative scores to 0.
C22_RawScoreRangeUpToRounding ==
    pc = "returned" =>
        LET s == RawScoreDouble(arg)
        IN /\ -Hundredths(4) <= riskScore /\ riskScore <= Hundredths(27)
           /\ baseProbability = Max(0, riskScore)
           /\ result.probability < Hundredths(28)
           /\ BigLe(BigNeg(DoubleOf(4)), s)
           /\ BigLe(s, Succ(DoubleOf(27)))
           /\ BigLt(s, DoubleOf(40))
           /\ BaseProbabilityDouble(s) = (IF BigLt(s, Zero) THEN Zero ELSE s)
           /\ \A n \in NoiseDoubles :
                 BigLe(DblAdd(BaseProbabilityDouble(s), n), Succ(DoubleOf(28)))

\* C22 witness: a record on which every group adds its largest adjustment has
\* been scored: 0.27 in exact arithmetic, the double after 0.27 as computed,
\* and with the largest perturbation a probability above 0.28.
C22_Witness ==
    /\ pc = "returned"
    /\ riskScore = Hundredths(27)
    /\ RawScoreDouble(arg) = Succ(DoubleOf(27))
    /\ \E n \in NoiseDoubles :
          BigLt(DoubleOf(28), DblAdd(BaseProbabilityDouble(RawScoreDouble(arg)), n))

\* The required fields that are not keys of the data payload.
AbsentFields == FieldSet \ PayloadKeys

\* C23: when the data payload lacks several required fields, the request is
\* answered 500 without scoring and the error names exactly the absent field
\* that comes first in the order annual_income, credit_amount, annuity, age,
\* employment_years, gender, contract_type, education; which of the later
\* fields are present makes no difference to the response.
C23_FirstOfSeveralMissing ==
    (Answered /\ HasPayload /\ Cardinality(AbsentFields) >= 2) =>
        \E i \in 1..Len(Fields) :
            /\ Fields[i] \in AbsentFields
            /\ \A j \in 1..(i - 1) : Fields[j] \notin AbsentFields
            /\ resp.status = 500
            /\ resp.body.error = Str("Missing required field: " \o Fields[i])
            /\ \A k \in (i + 1)..Len(Fields) :
                  resp.body.error # Str("Missing required field: " \o Fields[k])
            /\ calls = 0

\* C23 witness: a payload lacking credit_amount, gender and education, with
\* annual_income present, has been answered naming credit_amount.
C23_Witness ==
    /\ Answered /\ HasPayload
    /\ AbsentFields = {"credit_amount", "gender", "education"}
    /\ resp.body.error = Str("Missing required field: credit_amount")

\* The body in flight came from a form without an empty field: each of its
\* eight members is a number or a non-empty string.
SentFromCompleteForm ==
    outbox # None =>
        LET data == outbox.o["data"].o
        IN /\ DOMAIN data = FieldSet
           /\ \A k \in DOMAIN data :
                 \/ data[k].t = "num"
                 \/ data[k].t = "str" /\ data[k].s # ""

\* handlePredict is entered with some field empty.
ClickedIncomplete ==
    /\ fpc = "idle"
    /\ \E f \in FormFields : formData[f] = ""
    /\ formData' = formData

\* C24: when handlePredict runs with any of the eight form fields empty, no
\* prediction request is sent: the "Missing Information" notice is shown and
\* handlePredict returns with loading still false and the displayed result
\* unchanged; and every request sent was built from a form with no field empty.
C24_NoRequestWhenIncomplete ==
    /\ []SentFromCompleteForm
    /\ [][ClickedIncomplete =>
             /\ toasted' = MissingInformation
             /\ outbox = None /\ outbox' = None
             /\ fpc' = "idle"
             /\ loading = FALSE /\ loading' = FALSE
             /\ formResult' = formResult]_vars

\* C24 witness: with an earlier result on display and the gender select
\* emptied, the click has been answered by the notice.
C24_Witness ==
    /\ fpc = "idle"
    /\ formData["gender"] = "" /\ formData["income"] = "0"
    /\ toasted = MissingInformation
    /\ formResult # Null
    /\ ~loading /\ outbox = None

\* invoke resolved without an error and with data.
Succeeded ==
    /\ reply # None
    /\ reply.error = Null
    /\ ~Falsy(reply.data)

\* C25: loading is already true when the prediction request is sent and stays
\* true while handlePredict runs; once the request has completed, with data,
\* with an invocation error, with an empty response or with an exception,
\* handlePredict ends and loading is false again; the displayed result is
\* replaced only after a success, by the probability and bucket of the data,
\* and is left as it was on every failure path.
C25_LoadingBracketsRequest ==
    /\ [](outbox # None => loading)
    /\ [][(outbox = None /\ outbox' # None) => (loading /\ loading')]_vars
    /\ [](fpc = "idle" <=> ~loading)
    /\ [][formResult' # formResult =>
             /\ Succeeded
             /\ formResult' = [probability |-> Get(reply.data.o, "probability"),
                               riskBucket |-> Get(reply.data.o, "bucket")]]_vars
    /\ [][(fpc = "catch" \/ (fpc \in {"checkError", "checkData"} /\ ~Succeeded))
             => formResult' = formResult]_vars
    /\ (fpc \in {"checkError", "catch"}) ~> (fpc = "idle" /\ ~loading)

\* C25 witness: with an earlier result on display, a request that resolved
\* with neither data nor error has ended in the failure notice, loading false
\* and the result still on display.
C25_Witness ==
    /\ fpc = "idle"
    /\ toasted = PredictionFailed("No data returned from prediction")
    /\ formResult # Null
    /\ ~loading

====
